---- MODULE Spec2Model ----
(***************************************************************************)
(* The Dropbox credential scripts of income-clarity-app/scripts:           *)
(*   dropbox-oauth-setup.py    the authorization flow runner               *)
(*   dropbox-refresh-token.py  the token refresh utility                   *)
(*   dropbox-api.py            the file-operations CLI                     *)
(* all three sharing the credential store .env.dropbox.                    *)
(*                                                                         *)
(* Text is modelled as a sequence of atoms: the key names and the token    *)
(* values are single atoms, "=", "#" and " " are the characters the code   *)
(* looks at.  A file is the sequence of lines Python's `for line in f`     *)
(* yields: each line is its text plus whether a "\n" terminates it (only   *)
(* the last line of a file can lack one).  A file that does not exist      *)
(* reads as the empty file in every place the code reads it.               *)
(***************************************************************************)
EXTENDS Integers, Sequences, FiniteSets, TLC

\* ------------------------------------------------------------ bounds
MaxLines == 3        \* lines of the initial credential store
MaxLifeLines == 2    \* the same, where the scripts are run one after another
MaxLaunches == 2     \* launches of the authorization flow runner
MaxRuns == 1         \* runs of the token refresh utility
MaxArgs == 3         \* command-line arguments after the script name

\* ------------------------------------------------------------ text
ACCESS == "DROPBOX_ACCESS_TOKEN"
REFRESH == "DROPBOX_REFRESH_TOKEN"
APP_KEY == "DROPBOX_APP_KEY"
APP_SECRET == "DROPBOX_APP_SECRET"
OTHER_KEY == "OTHER_KEY"

Line(text, nl) == [text |-> text, nl |-> nl]

\* str.startswith
StartsWith(text, prefix) ==
    /\ Len(text) >= Len(prefix)
    /\ SubSeq(text, 1, Len(prefix)) = prefix

RECURSIVE LStrip(_)
LStrip(text) ==
    IF text # <<>> /\ Head(text) = " " THEN LStrip(Tail(text)) ELSE text

RECURSIVE RStrip(_)
RStrip(text) ==
    IF text # <<>> /\ text[Len(text)] = " "
    THEN RStrip(SubSeq(text, 1, Len(text) - 1))
    ELSE text

\* str.strip on a line: the terminating "\n" is whitespace and goes too
Strip(text) == RStrip(LStrip(text))

\* '=' in line
HasEq(text) == \E i \in 1..Len(text) : text[i] = "="

FirstEq(text) == CHOOSE i \in 1..Len(text) :
    text[i] = "=" /\ \A j \in 1..(i - 1) : text[j] # "="

\* line.split('=', 1)
SplitKey(text) == SubSeq(text, 1, FirstEq(text) - 1)
SplitValue(text) == SubSeq(text, FirstEq(text) + 1, Len(text))

\* the lines load_env of dropbox-refresh-token.py takes an entry from
IsEntry(text) ==
    LET s == Strip(text) IN s # <<>> /\ Head(s) # "#" /\ HasEq(s)

EntryKey(text) == SplitKey(Strip(text))
EntryValue(text) == SplitValue(Strip(text))

EnvPut(env, key, value) ==
    [k \in DOMAIN env \cup {key} |-> IF k = key THEN value ELSE env[k]]

\* load_env: later lines overwrite earlier ones of the same key
RECURSIVE load_env(_)
load_env(file) ==
    IF file = <<>> THEN [k \in {} |-> <<>>]
    ELSE LET n == Len(file)
             env == load_env(SubSeq(file, 1, n - 1))
             text == file[n].text
         IN IF IsEntry(text)
            THEN EnvPut(env, EntryKey(text), EntryValue(text))
            ELSE env

\* env.get(key) is neither None nor ''
Truthy(env, key) == <<key>> \in DOMAIN env /\ env[<<key>>] # <<>>

\* ------------------------------------------------------------ the store writers
\* "\n" written at the end of a file
WriteNewline(file) ==
    IF file = <<>> \/ file[Len(file)].nl
    THEN Append(file, Line(<<>>, TRUE))
    ELSE [file EXCEPT ![Len(file)].nl = TRUE]

\* refresh_access_token with the else branch of the read loop left out
RefreshRewriteDropOthers(file, token) ==
    LET hit(l) == StartsWith(l.text, <<ACCESS, "=">>)
        kept == SelectSeq(file, hit)
    IN [i \in 1..Len(kept) |-> Line(<<ACCESS, "=", token>>, TRUE)]

\* refresh_access_token, the read loop and the write back
RefreshRewrite(file, token) ==
    [i \in 1..Len(file) |->
        IF StartsWith(file[i].text, <<ACCESS, "=">>)
        THEN Line(<<ACCESS, "=", token>>, TRUE)
        ELSE file[i]]

\* OAuthHandler.do_GET, the lines kept from the existing file
ExistingLines(file) ==
    LET keep(l) == /\ ~StartsWith(l.text, <<ACCESS, "=">>)
                   /\ ~StartsWith(l.text, <<REFRESH, "=">>)
    IN SelectSeq(file, keep)

\* OAuthHandler.do_GET, the write of the updated content
OAuthRewrite(file, tokens) ==
    LET f1 == WriteNewline(ExistingLines(file))
        f2 == Append(f1, Line(<<ACCESS, "=", tokens.access_token>>, TRUE))
    IN IF "refresh_token" \in DOMAIN tokens
       THEN Append(f2, Line(<<REFRESH, "=", tokens.refresh_token>>, TRUE))
       ELSE f2


\* ------------------------------------------------------------ the token refresh utility
\* The answer of an HTTP request: a status, or an exception raised by
\* requests.post (status 0: no response was received).
Statuses == {200, 401, 500}
Replies == [raises : {FALSE}, status : Statuses] \cup {[raises |-> TRUE, status |-> 0]}
AccessTokens == {"t1", "t2"}
RefreshTokens == {"r1"}

\* What one call did: requests issued, the status received, the value
\* returned to the caller, and the message printed.
Call(fn, req, status, ret, raised, msg) ==
    [fn |-> fn, req |-> req, status |-> status, ret |-> ret,
     raised |-> raised, msg |-> msg]

test_token(file, reply) ==
    IF ~Truthy(load_env(file), ACCESS)
    THEN Call("test_token", 0, 0, FALSE, FALSE, "No access token found")
    ELSE IF reply.raises
    THEN Call("test_token", 1, 0, FALSE, TRUE, "Traceback")
    ELSE IF reply.status = 200
    THEN Call("test_token", 1, reply.status, TRUE, FALSE, "Current token is working")
    ELSE IF reply.status = 401
    THEN Call("test_token", 1, reply.status, FALSE, FALSE, "Token expired, refreshing...")
    ELSE Call("test_token", 1, reply.status, FALSE, FALSE, "API error")

refresh_access_token(file, reply) ==
    IF ~Truthy(load_env(file), REFRESH)
    THEN Call("refresh_access_token", 0, 0, FALSE, FALSE, "No refresh token found")
    ELSE IF reply.raises
    THEN Call("refresh_access_token", 1, 0, FALSE, TRUE, "Traceback")
    ELSE IF reply.status = 200
    THEN Call("refresh_access_token", 1, reply.status, TRUE, FALSE,
              "Access token refreshed successfully!")
    ELSE Call("refresh_access_token", 1, reply.status, FALSE, FALSE,
              "Failed to refresh token")

\* the store refresh_access_token leaves behind
RefreshStore(file, reply, token) ==
    IF refresh_access_token(file, reply).ret THEN RefreshRewrite(file, token) ELSE file

\* ------------------------------------------------------------ the authorization flow runner
CallbackPath == <<"/oauth_callback">>
Paths == {CallbackPath, <<"/favicon.ico">>}
Param(k, v) == [k |-> k, v |-> v]
Queries == {<<>>, <<Param("code", "")>>, <<Param("code", "c1")>>,
            <<Param("error", "access_denied")>>}
Requests == [path : Paths, query : Queries]

\* The answer of the token endpoint as response.json() gives it, or an
\* exception raised by requests.post or by response.json().
TokenBodies ==
    {[access_token |-> a, refresh_token |-> r] : a \in AccessTokens, r \in RefreshTokens}
    \cup {[access_token |-> a] : a \in AccessTokens}
    \cup {[error |-> "invalid_grant"]}
    \cup {[refresh_token |-> r] : r \in RefreshTokens}
Exchanges == {[raises |-> FALSE, tokens |-> t] : t \in TokenBodies}
             \cup {[raises |-> TRUE, tokens |-> [error |-> "none"]]}

\* urllib.parse.parse_qs(...).get('code', [None])[0]: parse_qs drops blank
\* values; "" stands for None, both are false in `if code:`
QueryCode(query) ==
    LET given(p) == p.k = "code" /\ p.v # ""
        vals == SelectSeq(query, given)
    IN IF vals = <<>> THEN "" ELSE vals[1].v

\* What one request did to the process: the HTTP status sent to the browser
\* (0: nothing was sent), the side effects in the order the handler makes
\* them, the store left behind and whether the process has exited.
Handled(status, effects, file, exit) ==
    [status |-> status, effects |-> effects, store |-> file, exit |-> exit]

\* self.send_error(400, ...) with os._exit(0) after it
ErrorReplyExits(file, effects) ==
    Handled(400, effects \o <<"send_error", "os_exit">>, file, TRUE)

\* self.send_error(400, ...): both failure branches of do_GET
ErrorReply(file, effects) ==
    Handled(400, effects \o <<"send_error">>, file, FALSE)

\* the success branch with os._exit(0) moved before the write
SuccessReplyExitsFirst(file, tokens) ==
    Handled(0, <<"post_token", "os_exit">>, file, TRUE)

\* the success branch of do_GET
SuccessReply(file, tokens) ==
    Handled(200, <<"post_token", "write_env", "send_response", "print", "os_exit">>,
            OAuthRewrite(file, tokens), TRUE)

do_GET(file, request, exchange) ==
    IF ~StartsWith(request.path, CallbackPath)
    THEN Handled(0, <<>>, file, FALSE)
    ELSE IF QueryCode(request.query) = ""
    THEN ErrorReply(file, <<>>)
    ELSE IF exchange.raises
    THEN Handled(0, <<"post_token", "handle_error">>, file, FALSE)
    ELSE IF "access_token" \in DOMAIN exchange.tokens
    THEN SuccessReply(file, exchange.tokens)
    ELSE ErrorReply(file, <<"post_token">>)

\* ------------------------------------------------------------ the file-operations CLI
\* What one invocation did: the exit status, the HTTP requests issued and
\* the lines main itself printed.
Exited(code, net, out) == [exit |-> code, net |-> net, out |-> out]

\* an uncaught exception: traceback, exit status 1
Crashed(net) == Exited(1, net, <<"Traceback">>)

\* load_env of dropbox-api.py unpacks line.split('=', 1) without testing
\* '=' in line: a line without one raises ValueError
load_env_raises(file) ==
    \E i \in 1..Len(file) :
        LET s == Strip(file[i].text) IN s # <<>> /\ Head(s) # "#" /\ ~HasEq(s)

list_files(file) ==
    IF load_env_raises(file) THEN Crashed(0)
    ELSE IF ~Truthy(load_env(file), ACCESS)
    THEN Exited(0, 0, <<>>)
    ELSE Exited(0, 1, <<>>)

download_file(file) ==
    IF load_env_raises(file) THEN Crashed(0) ELSE Exited(0, 1, <<>>)

delete_file(file) ==
    IF load_env_raises(file) THEN Crashed(0) ELSE Exited(0, 1, <<>>)

\* open(local_path, 'rb') is inside the try: an unreadable file is caught
\* before the request is made
upload_file(file, readable) ==
    IF load_env_raises(file) THEN Crashed(0)
    ELSE IF readable THEN Exited(0, 1, <<>>)
    ELSE Exited(0, 0, <<>>)

Usage(text) == Exited(1, 0, <<text>>)

\* the else branch of main without its sys.exit(1)
UnknownCommandFallsThrough(command) ==
    Exited(0, 0, <<"Unknown command", "Available commands: list, download, delete, upload">>)

\* the else branch of main
UnknownCommand(command) ==
    Exited(1, 0, <<"Unknown command", "Available commands: list, download, delete, upload">>)

\* main of dropbox-api.py; argv is sys.argv, so sys.argv[k] is argv[k + 1]
main(argv, file, readable) ==
    IF Len(argv) < 2 THEN Usage("Usage: [list|download|delete|upload]")
    ELSE LET command == argv[2] IN
         IF command = "list" THEN list_files(file)
         ELSE IF command = "download"
         THEN IF Len(argv) < 4 THEN Usage("Usage: download") ELSE download_file(file)
         ELSE IF command = "delete"
         THEN IF Len(argv) < 3 THEN Usage("Usage: delete") ELSE delete_file(file)
         ELSE IF command = "upload"
         THEN IF Len(argv) < 4 THEN Usage("Usage: upload") ELSE upload_file(file, readable)
         ELSE UnknownCommand(command)

ArgWords == {"list", "download", "delete", "upload", "sync", "/a.png"}
SysArgvs == {<<"dropbox-api.py">> \o a :
                a \in UNION {[1..n -> ArgWords] : n \in 0..MaxArgs}}

\* ------------------------------------------------------------ the credential store
LineTexts ==
    { <<ACCESS, "=", "a">>, <<" ", ACCESS, "=", "a">>,
      <<ACCESS, "=">>, <<REFRESH, "=", "b">>,
      <<APP_KEY, "=", "k">>, <<APP_SECRET, "=", "s">>,
      <<OTHER_KEY, "=", "v", " ">>,
      <<"#", "comment">> }

\* what `for line in f` can yield: only the last line can lack its "\n",
\* and a line without "\n" is not empty
WellFormed(file) ==
    \A i \in 1..Len(file) :
        /\ (i < Len(file) => file[i].nl)
        /\ (~file[i].nl => file[i].text # <<>>)

\* the data model's invariant: at most one line per key
KeyCount(file, key) ==
    Cardinality({i \in 1..Len(file) :
                    IsEntry(file[i].text) /\ EntryKey(file[i].text) = key})

Keys(file) == {EntryKey(file[i].text) : i \in {j \in 1..Len(file) : IsEntry(file[j].text)}}

OneLinePerKey(file) == \A k \in Keys(file) : KeyCount(file, k) <= 1

FilesOf(n) ==
    {f \in UNION {[1..m -> [text : LineTexts, nl : BOOLEAN]] : m \in 0..n} :
        WellFormed(f) /\ OneLinePerKey(f)}

\* ------------------------------------------------------------ state
VARIABLES
    store,      \* .env.dropbox
    storePre,   \* the store as the latest operation found it
    last,       \* the latest operation, its inputs and what it did
    utilPc,     \* where main of dropbox-refresh-token.py stands
    utilLog,    \* the calls main has made in this run
    utilRuns,   \* runs of the utility so far
    oauthState, \* the runner process: "off", "listening" or "exited"
    launches,   \* launches of the runner so far
    rejected,   \* this runner process has answered an earlier request with 400
    cli         \* the latest CLI invocation and its outcome

vars == <<store, storePre, last, utilPc, utilLog, utilRuns, oauthState, launches,
          rejected, cli>>
utilVars == <<utilPc, utilLog, utilRuns>>
oauthVars == <<oauthState, launches, rejected>>

NoOp == [op |-> "none"]
NoCli == [pc |-> "start", argv |-> <<>>, result |-> Exited(0, 0, <<>>)]

Fresh ==
    /\ storePre = store
    /\ last = NoOp
    /\ utilPc = "idle"
    /\ utilLog = <<>>
    /\ utilRuns = 0
    /\ oauthState = "off"
    /\ launches = 0
    /\ rejected = FALSE
    /\ cli = NoCli

Init == store \in FilesOf(MaxLines) /\ Fresh

\* ---- dropbox-refresh-token.py: main, one action per call it makes
\* `if not test_token():`, in a process started while the runner is not up
UtilTest ==
    /\ utilPc \in {"idle", "done"}
    /\ oauthState # "listening"
    /\ utilRuns < MaxRuns
    /\ \E reply \in Replies :
        LET c == test_token(store, reply) IN
        /\ utilLog' = <<c>>
        /\ utilPc' = IF c.raised \/ c.ret THEN "done" ELSE "refresh"
        /\ last' = [op |-> "test_token", call |-> c]
    /\ utilRuns' = utilRuns + 1
    /\ storePre' = store
    /\ UNCHANGED <<store, oauthVars, cli>>

\* `if refresh_access_token():`
UtilRefresh ==
    /\ utilPc = "refresh"
    /\ \E reply \in Replies, token \in AccessTokens :
        LET c == refresh_access_token(store, reply) IN
        /\ store' = RefreshStore(store, reply, token)
        /\ utilLog' = Append(utilLog, c)
        /\ utilPc' = IF c.ret THEN "retest" ELSE "done"
        /\ last' = [op |-> "refresh_access_token", call |-> c,
                    token |-> IF c.ret THEN token ELSE ""]
    /\ storePre' = store
    /\ UNCHANGED <<utilRuns, oauthVars, cli>>

\* the second `test_token()`
UtilRetest ==
    /\ utilPc = "retest"
    /\ \E reply \in Replies :
        LET c == test_token(store, reply) IN
        /\ utilLog' = Append(utilLog, c)
        /\ last' = [op |-> "test_token", call |-> c]
    /\ utilPc' = "done"
    /\ storePre' = store
    /\ UNCHANGED <<store, utilRuns, oauthVars, cli>>

\* ---- dropbox-oauth-setup.py
\* main: the process starts to listen, while the utility is not running
OAuthMain ==
    /\ oauthState \in {"off", "exited"}
    /\ utilPc \in {"idle", "done"}
    /\ launches < MaxLaunches
    /\ oauthState' = "listening"
    /\ launches' = launches + 1
    /\ rejected' = FALSE
    /\ last' = [op |-> "serve_forever"]
    /\ storePre' = store
    /\ UNCHANGED <<store, utilVars, cli>>

\* the token exchange do_GET makes for this request, if it makes one
ExchangesFor(request) ==
    IF StartsWith(request.path, CallbackPath) /\ QueryCode(request.query) # ""
    THEN Exchanges
    ELSE {[raises |-> FALSE, tokens |-> [error |-> "not asked"]]}

\* OAuthHandler.do_GET, one request
OAuthGet ==
    /\ oauthState = "listening"
    /\ \E request \in Requests :
       \E exchange \in ExchangesFor(request) :
        LET h == do_GET(store, request, exchange) IN
        /\ store' = h.store
        /\ rejected' = (rejected \/ (last.op = "do_GET" /\ last.handled.status = 400))
        /\ oauthState' = IF h.exit THEN "exited" ELSE "listening"
        /\ last' = [op |-> "do_GET", request |-> request, exchange |-> exchange,
                    handled |-> h]
    /\ storePre' = store
    /\ UNCHANGED <<launches, utilVars, cli>>

\* One script is run once on the store it finds.
Solo == utilPc = "idle" /\ oauthState = "off"

Next ==
    \/ Solo /\ UtilTest
    \/ UtilRefresh
    \/ UtilRetest
    \/ Solo /\ OAuthMain
    \/ OAuthGet

Spec == Init /\ [][Next]_vars

\* The scripts are run one after another on the same store.
LifeInit == store \in FilesOf(MaxLifeLines) /\ Fresh

LifeNext == UtilTest \/ UtilRefresh \/ UtilRetest \/ OAuthMain \/ OAuthGet

SpecLife == LifeInit /\ [][LifeNext]_vars

\* ---- dropbox-api.py
CliStores ==
    {<<>>, <<Line(<<ACCESS, "=", "a">>, TRUE)>>, <<Line(<<REFRESH, "=", "b">>, TRUE)>>,
     <<Line(<<ACCESS, "=", "a">>, TRUE), Line(<<"junk">>, FALSE)>>}

CliInit == store \in CliStores /\ Fresh

\* one invocation of the CLI, from the start of the process to its exit
CliMain ==
    /\ cli.pc = "start"
    /\ \E argv \in SysArgvs, readable \in BOOLEAN :
        cli' = [pc |-> "exited", argv |-> argv, result |-> main(argv, store, readable)]
    /\ last' = [op |-> "main"]
    /\ storePre' = store
    /\ UNCHANGED <<store, utilVars, oauthVars>>

CliNext == CliMain

SpecCli == CliInit /\ [][CliNext]_vars

\* ------------------------------------------------------------ the claims
Texts(lines) == [i \in 1..Len(lines) |-> lines[i].text]

\* the lines of `file` that are entries of a key outside `targets`
OtherLines(file, targets) ==
    LET other(l) == IsEntry(l.text) /\ EntryKey(l.text) \notin targets
    IN SelectSeq(file, other)

Refreshed == last.op = "refresh_access_token" /\ last.call.ret
Exchanged == last.op = "do_GET" /\ last.handled.status = 200
Position(effects, e) == CHOOSE i \in 1..Len(effects) : effects[i] = e
Has(effects, e) == \E i \in 1..Len(effects) : effects[i] = e

\* C1: a successful rewrite by refresh_access_token leaves every line of a
\* key other than DROPBOX_ACCESS_TOKEN as it was, terminator included, and a
\* successful rewrite by the OAuth callback handler leaves the text of every
\* line of a key other than DROPBOX_ACCESS_TOKEN and DROPBOX_REFRESH_TOKEN as
\* it was; in both cases the lines keep their relative order.
C1_OtherKeysUntouched ==
    /\ Refreshed =>
        OtherLines(store, {<<ACCESS>>}) = OtherLines(storePre, {<<ACCESS>>})
    /\ Exchanged =>
        Texts(OtherLines(store, {<<ACCESS>>, <<REFRESH>>}))
            = Texts(OtherLines(storePre, {<<ACCESS>>, <<REFRESH>>}))

\* C1's case: the callback handler has rewritten a store in which a token
\* line stood between the lines of two other keys.
C1_Witness ==
    /\ Exchanged
    /\ Len(storePre) = 3
    /\ StartsWith(storePre[2].text, <<ACCESS, "=">>)
    /\ Len(OtherLines(storePre, {<<ACCESS>>, <<REFRESH>>})) = 2
    /\ store # storePre

\* C2 as stated: after an exchange whose response has access_token and no
\* refresh_token, the entries of every key but DROPBOX_ACCESS_TOKEN, the
\* DROPBOX_REFRESH_TOKEN line among them, are what they were.
C2_OnlyAccessLineChanges ==
    (Exchanged /\ "refresh_token" \notin DOMAIN last.exchange.tokens) =>
        Texts(OtherLines(store, {<<ACCESS>>})) = Texts(OtherLines(storePre, {<<ACCESS>>}))

\* C3 as stated: after a successful refresh a load of the store yields the
\* new access token.
C3_LoadYieldsNewToken ==
    Refreshed =>
        /\ <<ACCESS>> \in DOMAIN load_env(store)
        /\ load_env(store)[<<ACCESS>>] = <<last.token>>

\* the probes of this run that received an HTTP status
Probes == {i \in 1..Len(utilLog) :
              utilLog[i].fn = "test_token" /\ utilLog[i].req = 1 /\ ~utilLog[i].raised}

\* C4 as stated: of the probes that received an HTTP status, test_token
\* tells its caller healthy exactly on 200, and what it tells its caller on
\* 401 differs from what it tells it on any other status.
C4_ThreeOutcomes ==
    /\ \A i \in Probes : utilLog[i].ret <=> utilLog[i].status = 200
    /\ \A i, j \in Probes :
        (utilLog[i].status = 401 /\ utilLog[j].status \notin {200, 401})
            => utilLog[i].ret # utilLog[j].ret

\* C5 as stated: in one run refresh is invoked at most once and only right
\* after a first probe that received 401; a second probe follows only a
\* successful refresh and nothing follows it.
C5_RefreshOnlyAfterExpired ==
    /\ Len(utilLog) <= 3
    /\ \A i \in 1..Len(utilLog) :
        /\ utilLog[i].fn = "refresh_access_token" =>
            /\ i = 2
            /\ utilLog[1].fn = "test_token"
            /\ utilLog[1].req = 1
            /\ utilLog[1].status = 401
        /\ (utilLog[i].fn = "test_token" /\ i > 1) =>
            /\ i = 3
            /\ utilLog[2].fn = "refresh_access_token"
            /\ utilLog[2].ret
            /\ utilPc = "done"

\* the latest request was a callback without a code, or one whose token
\* exchange answered without access_token
FailedCallback ==
    /\ last.op = "do_GET"
    /\ StartsWith(last.request.path, CallbackPath)
    /\ \/ QueryCode(last.request.query) = ""
       \/ /\ ~last.exchange.raises
          /\ "access_token" \notin DOMAIN last.exchange.tokens

\* C6: a callback request without a code, and one whose token exchange
\* answered without access_token, is answered with 400, leaves the store as
\* it was and leaves the process listening, able to take the next request.
C6_FailedCallbackKeepsListening ==
    FailedCallback =>
        /\ last.handled.status = 400
        /\ store = storePre
        /\ oauthState = "listening"
        /\ ENABLED OAuthGet

\* C6's case: a callback is exchanged successfully by a process that has
\* answered an earlier callback with 400.
C6_Witness == Exchanged /\ rejected

\* C7: the runner process has exited only if its latest request was a
\* callback with a code whose exchange returned access_token, and then the
\* store was written before the confirmation page was sent, the page was sent
\* before os._exit, and a load of the store yields the tokens received.
C7_ExitOnlyAfterSuccess ==
    oauthState = "exited" =>
        /\ last.op = "do_GET"
        /\ QueryCode(last.request.query) # ""
        /\ ~last.exchange.raises
        /\ "access_token" \in DOMAIN last.exchange.tokens
        /\ LET e == last.handled.effects IN
            /\ Has(e, "write_env") /\ Has(e, "send_response") /\ Has(e, "os_exit")
            /\ Position(e, "write_env") < Position(e, "send_response")
            /\ Position(e, "send_response") < Position(e, "os_exit")
            /\ e[Len(e)] = "os_exit"
        /\ last.handled.status = 200
        /\ <<ACCESS>> \in DOMAIN load_env(store)
        /\ load_env(store)[<<ACCESS>>] = <<last.exchange.tokens.access_token>>
        /\ "refresh_token" \in DOMAIN last.exchange.tokens =>
            /\ <<REFRESH>> \in DOMAIN load_env(store)
            /\ load_env(store)[<<REFRESH>>] = <<last.exchange.tokens.refresh_token>>

\* C7's case: the process has exited on an exchange that returned both tokens.
C7_Witness ==
    /\ oauthState = "exited"
    /\ "refresh_token" \in DOMAIN last.exchange.tokens
    /\ store # storePre

Commands == {"list", "download", "delete", "upload"}

Unknown(argv) == Len(argv) >= 2 /\ argv[2] \notin Commands

Invalid(argv) ==
    \/ Len(argv) = 1
    \/ Unknown(argv)
    \/ argv[2] \in {"download", "upload"} /\ Len(argv) - 2 < 2
    \/ argv[2] = "delete" /\ Len(argv) - 2 < 1

\* C8: an invocation with no command, an unknown command, download or upload
\* with fewer than two paths, or delete with no path exits non-zero without a
\* request; an unknown command also prints the available commands.
C8_InvalidInvocationExits ==
    cli.pc = "exited" =>
        /\ Invalid(cli.argv) => cli.result.exit # 0 /\ cli.result.net = 0
        /\ Unknown(cli.argv) =>
            Has(cli.result.out, "Available commands: list, download, delete, upload")

\* C8's case: an unknown command, with arguments, has been run.
C8_Witness ==
    /\ cli.pc = "exited"
    /\ Len(cli.argv) = 3
    /\ Unknown(cli.argv)
    /\ cli.result.exit = 1

\* C9 as stated: the store keeps at most one line per key.
C9_OneLinePerKey == OneLinePerKey(store)

\* the store holds a refresh token and both client credentials
HoldsAll(file) ==
    /\ Truthy(load_env(file), REFRESH)
    /\ Truthy(load_env(file), APP_KEY)
    /\ Truthy(load_env(file), APP_SECRET)

\* C10 as stated: refresh_access_token issues its request only when the
\* store holds a refresh token and both client credentials; when one is
\* missing or the answer is not 200 it returns failure, leaves the store as
\* it was and the run makes no further request.
C10_RequestNeedsCredentials ==
    last.op = "refresh_access_token" =>
        /\ last.call.req = 1 => HoldsAll(storePre)
        /\ (~HoldsAll(storePre) \/ last.call.status # 200) =>
            /\ ~last.call.ret
            /\ store = storePre
            /\ last.call.req <= 1
            /\ utilPc = "done"
====
